---- MODULE Spec2Model ----
(***************************************************************************)
(* Retrieval engine of the document service: query expansion, the semantic *)
(* and keyword search adapters over the vector index collection, the      *)
(* hybrid merge, and the orchestrator search_similar_chunks_advanced.     *)
(*                                                                         *)
(* Strings are sequences of one-character strings, so that lower(),       *)
(* substring search, count() and replace() are computed as Python does.   *)
(* Scores are exact rationals scaled by ScoreScale (1.0 = 1000);          *)
(* distances are scaled by DistScale (1.0 = 100).                         *)
(***************************************************************************)
EXTENDS Integers, Sequences, FiniteSets, TLC

\* ------------------------------------------------------------------ bounds
NumChunks == 4      \* chunks held by the collection in Spec
MaxTopK   == 2      \* largest top_k of a request
MaxRep    == 11     \* largest number of repetitions of a word in a chunk (SpecKw)

\* --------------------------------------------------------------- constants
ScoreScale == 1000  \* relevance 1.0
DistScale  == 100   \* distance 1.0

\* ----------------------------------------------------------------- strings
UpperLetters == <<"A","B","C","D","E","F","G","H","I","J","K","L","M",
                  "N","O","P","Q","R","S","T","U","V","W","X","Y","Z">>
LowerLetters == <<"a","b","c","d","e","f","g","h","i","j","k","l","m",
                  "n","o","p","q","r","s","t","u","v","w","x","y","z">>

\* str.lower() on one character
LowerChar(c) ==
    IF \E i \in 1..26 : UpperLetters[i] = c
    THEN LowerLetters[CHOOSE i \in 1..26 : UpperLetters[i] = c]
    ELSE c

\* str.lower()
Lower(s) == [i \in 1..Len(s) |-> LowerChar(s[i])]

\* sub occurs in s at position i
MatchAt(s, sub, i) ==
    /\ i >= 1
    /\ i + Len(sub) - 1 <= Len(s)
    /\ SubSeq(s, i, i + Len(sub) - 1) = sub

\* str.find(sub, from) with 1-based positions, 0 when absent
Find(s, sub, from) ==
    IF \E i \in from..(Len(s) + 1) : MatchAt(s, sub, i)
    THEN CHOOSE i \in from..(Len(s) + 1) :
            /\ MatchAt(s, sub, i)
            /\ \A j \in from..(i - 1) : ~MatchAt(s, sub, j)
    ELSE 0

\* the Python operator  sub in s
Contains(s, sub) == Find(s, sub, 1) # 0

RECURSIVE CountFrom(_, _, _)
CountFrom(s, sub, from) ==
    LET p == Find(s, sub, from)
    IN  IF p = 0 THEN 0 ELSE 1 + CountFrom(s, sub, p + Len(sub))

\* str.count(sub): non-overlapping occurrences, len+1 for the empty string
Count(s, sub) ==
    IF Len(sub) = 0 THEN Len(s) + 1 ELSE CountFrom(s, sub, 1)

RECURSIVE ReplaceFrom(_, _, _, _)
ReplaceFrom(s, old, new, from) ==
    LET p == Find(s, old, from)
    IN  IF p = 0
        THEN SubSeq(s, from, Len(s))
        ELSE SubSeq(s, from, p - 1) \o new \o ReplaceFrom(s, old, new, p + Len(old))

\* str.replace(old, new) for a non-empty old
Replace(s, old, new) == ReplaceFrom(s, old, new, 1)

Min(a, b) == IF a <= b THEN a ELSE b

\* -------------------------------------------------------- string literals
s_ml   == <<"m","l">>
s_ai   == <<"a","i">>
s_nn   == <<"n","n">>
s_dl   == <<"d","l">>
s_nlp  == <<"n","l","p">>
s_sp   == <<" ">>
s_machine_learning ==
    <<"m","a","c","h","i","n","e"," ","l","e","a","r","n","i","n","g">>
s_artificial_intelligence ==
    <<"a","r","t","i","f","i","c","i","a","l"," ",
      "i","n","t","e","l","l","i","g","e","n","c","e">>
s_neural_network ==
    <<"n","e","u","r","a","l"," ","n","e","t","w","o","r","k">>
s_deep_learning ==
    <<"d","e","e","p"," ","l","e","a","r","n","i","n","g">>
s_natural_language_processing ==
    <<"n","a","t","u","r","a","l"," ","l","a","n","g","u","a","g","e"," ",
      "p","r","o","c","e","s","s","i","n","g">>

s_ML   == <<"M","L">>
s_Ml   == <<"M","l">>
s_data == <<"d","a","t","a">>

\* the synonym table of _expand_query, in dict order
synonyms == <<
    [abbr |-> s_ml,  full |-> s_machine_learning],
    [abbr |-> s_ai,  full |-> s_artificial_intelligence],
    [abbr |-> s_nn,  full |-> s_neural_network],
    [abbr |-> s_dl,  full |-> s_deep_learning],
    [abbr |-> s_nlp, full |-> s_natural_language_processing] >>

RECURSIVE ExpandLoop(_, _)
ExpandLoop(expanded, i) ==
    IF i > Len(synonyms) THEN expanded
    ELSE LET abbr == synonyms[i].abbr
             full == synonyms[i].full
         IN  IF Contains(expanded, abbr)
             THEN ExpandLoop(Replace(expanded, abbr, abbr \o s_sp \o full), i + 1)
             ELSE ExpandLoop(expanded, i + 1)

\* DocumentService._expand_query
_expand_query(query) == ExpandLoop(Lower(query), 1)

\* word repeated n >= 1 times, separated by single spaces
RECURSIVE RepWord(_, _)
RepWord(w, n) == IF n <= 1 THEN w ELSE w \o s_sp \o RepWord(w, n - 1)

\* ------------------------------------------------------------ Optional[...]
None    == [none |-> TRUE]
Some(v) == [none |-> FALSE, val |-> v]

\* ------------------------------------------------------------- collection
Docs == <<"d1", "d2">>

\* document that owns the chunk at position p of the collection
DocOfPos(p) == Docs[((p - 1) % Len(Docs)) + 1]

\* collection.add of _generate_embeddings: one entry per chunk, with metadata
ChunkEntry(p, text) ==
    [document |-> text,
     metadata |-> [doc_id      |-> DocOfPos(p),
                   chunk_index |-> (p - 1) \div Len(Docs),
                   filename    |-> DocOfPos(p)]]

MkCollection(texts) == [p \in 1..Len(texts) |-> ChunkEntry(p, texts[p])]

\* chunk texts of Spec
TextList == << RepWord(s_ml, 5), s_ML, s_data >>

\* chunk texts of SpecKw: a mixed-case word repeated 1..MaxRep times, and a text
\* without the word
KwTextList == [i \in 1..(MaxRep + 1) |->
                 IF i <= MaxRep THEN RepWord(s_Ml, i) ELSE s_data]

\* collections over a text list, up to the order of the chunks
Collections(list, n) ==
    { MkCollection([p \in 1..n |-> list[f[p]]]) :
        f \in { g \in [1..n -> 1..Len(list)] :
                  \A i \in 1..n : \A j \in i..n : g[i] <= g[j] } }

\* ---------------------------------------------------------------- requests
Queries     == { s_ML, s_data }
SearchModes == { "semantic", "keyword", "hybrid", "fuzzy" }
TopKs       == 0..MaxTopK
DocIdsOptions ==
    { None, Some(<< >>), Some(<<"d1">>), Some(<<"d2", "d3">>) }

\* distances the index reports (-0.2, 0.4, 2.4): the values outside [0, 2]
\* stand for what rounding in the index's float arithmetic, or a persisted
\* collection kept under another metric than cosine, produces
Distances == { -20, 40, 240 }

\* ------------------------------------------------------------ where filter
NoFilter == [op |-> "none", args |-> << >>]

\* truthiness test  doc_ids and len(doc_ids) > 0
HasIds(doc_ids) == ~doc_ids.none /\ Len(doc_ids.val) > 0

\* where_filter of _semantic_search
SemanticWhere(doc_ids) ==
    IF HasIds(doc_ids)
    THEN IF Len(doc_ids.val) = 1
         THEN [op |-> "eq", args |-> << doc_ids.val[1] >>]
         ELSE [op |-> "or", args |-> doc_ids.val]
    ELSE NoFilter

\* _keyword_search filtering on the first id only
KeywordWhere_FirstIdOnly(doc_ids) ==
    IF HasIds(doc_ids)
    THEN [op |-> "eq", args |-> << doc_ids.val[1] >>]
    ELSE NoFilter

\* where_filter of _keyword_search
KeywordWhere(doc_ids) ==
    IF HasIds(doc_ids)
    THEN IF Len(doc_ids.val) = 1
         THEN [op |-> "eq", args |-> << doc_ids.val[1] >>]
         ELSE [op |-> "or", args |-> doc_ids.val]
    ELSE NoFilter

\* the index applying a where filter to the metadata of an entry
Matches(where, entry) ==
    CASE where.op = "none" -> TRUE
      [] where.op = "eq"   -> entry.metadata.doc_id = where.args[1]
      [] where.op = "or"   -> \E i \in 1..Len(where.args) :
                                 entry.metadata.doc_id = where.args[i]

Matched(coll, where) == { p \in 1..Len(coll) : Matches(where, coll[p]) }

\* collection.query: the n_results nearest entries in scope, nearest first;
\* entries at equal distance come in any order
QueryOrders(coll, where, n_results, dist) ==
    LET matched == Matched(coll, where)
        k       == Min(n_results, Cardinality(matched))
        d(p)    == dist[coll[p].document]
    IN  { ids \in [1..k -> matched] :
            /\ \A i \in 1..k : \A j \in 1..k : ids[i] = ids[j] => i = j
            /\ \A i \in 1..k : \A j \in i..k : d(ids[i]) <= d(ids[j])
            /\ \A p \in matched :
                 (\A i \in 1..k : ids[i] # p) => \A i \in 1..k : d(ids[i]) <= d(p) }

\* collection.get: every entry in scope, in insertion order
RECURSIVE GetFrom(_, _, _)
GetFrom(coll, where, p) ==
    IF p > Len(coll) THEN << >>
    ELSE (IF Matches(where, coll[p]) THEN << p >> ELSE << >>)
         \o GetFrom(coll, where, p + 1)

CollectionGet(coll, where) == GetFrom(coll, where, 1)

\* ------------------------------------------------------------------- hits
\* relevance_score of a semantic hit: 1 - distance / 2
SemanticScore(d) == ScoreScale - (d * ScoreScale) \div (2 * DistScale)

\* keyword score without the cap at 1.0
KeywordScore_Unsaturated(tf) == (tf * ScoreScale) \div 10

\* relevance_score of a keyword hit: min(term_frequency / 10, 1.0)
KeywordScore(tf) == Min((tf * ScoreScale) \div 10, ScoreScale)

\* formatting that reads the first entry of the parallel arrays for every hit
FormatSemantic_FirstEntry(coll, ids, dist) ==
    [i \in 1..Len(ids) |->
        [content         |-> coll[ids[1]].document,
         metadata        |-> coll[ids[1]].metadata,
         distance        |-> dist[coll[ids[1]].document],
         relevance_score |-> SemanticScore(dist[coll[ids[1]].document])]]

\* formatted_results of _semantic_search
FormatSemantic(coll, ids, dist) ==
    [i \in 1..Len(ids) |->
        [content         |-> coll[ids[i]].document,
         metadata        |-> coll[ids[i]].metadata,
         distance        |-> dist[coll[ids[i]].document],
         relevance_score |-> SemanticScore(dist[coll[ids[i]].document])]]

\* truncation left out
Take_All(seq, k) == seq

\* Python slice seq[:k]
Take(seq, k) ==
    IF k >= 0 THEN SubSeq(seq, 1, Min(k, Len(seq)))
    ELSE SubSeq(seq, 1, Len(seq) + k)

\* list.sort / sorted with key relevance_score, reverse=True (stable)
RECURSIVE InsertDesc(_, _)
InsertDesc(sorted, h) ==
    IF Len(sorted) = 0 THEN << h >>
    ELSE IF Head(sorted).relevance_score >= h.relevance_score
         THEN << Head(sorted) >> \o InsertDesc(Tail(sorted), h)
         ELSE << h >> \o sorted

\* sort left out
SortDesc_Unsorted(seq) == seq

RECURSIVE SortDesc(_)
SortDesc(seq) ==
    IF Len(seq) = 0 THEN << >>
    ELSE InsertDesc(SortDesc(SubSeq(seq, 1, Len(seq) - 1)), seq[Len(seq)])

\* the matching loop of _keyword_search over the entries the index returned
RECURSIVE KeywordMatches(_, _, _, _)
KeywordMatches(coll, got, query_lower, i) ==
    IF i > Len(got) THEN << >>
    ELSE LET doc == coll[got[i]].document
         IN  (IF Contains(Lower(doc), query_lower)
              THEN << [content         |-> doc,
                       metadata        |-> coll[got[i]].metadata,
                       term_frequency  |-> Count(Lower(doc), query_lower),
                       relevance_score |-> KeywordScore(Count(Lower(doc), query_lower))] >>
              ELSE << >>)
             \o KeywordMatches(coll, got, query_lower, i + 1)

\* _keyword_search, given the entries collection.get returned
_keyword_search(coll, got, q, top_k) ==
    Take(SortDesc(KeywordMatches(coll, got, Lower(q), 1)), top_k)

\* a join key that never matches
KeyIndex_NeverFound(merged, content) == 0

\* position of the key content in the dict merged, 0 when absent
KeyIndex(merged, content) ==
    IF \E i \in 1..Len(merged) : merged[i].content = content
    THEN CHOOSE i \in 1..Len(merged) : merged[i].content = content
    ELSE 0

\* value stored for a semantic result
SemanticEntry(r) ==
    [content         |-> r.content,
     metadata        |-> r.metadata,
     distance        |-> r.distance,
     relevance_score |-> r.relevance_score,
     semantic_score  |-> r.relevance_score,
     keyword_score   |-> 0]

\* value stored for a keyword result whose content is not yet a key
KeywordEntry(r) ==
    [content         |-> r.content,
     metadata        |-> r.metadata,
     term_frequency  |-> r.term_frequency,
     relevance_score |-> (r.relevance_score * 7) \div 10,
     semantic_score  |-> 0,
     keyword_score   |-> r.relevance_score]

\* fusion with even weights
Boost_EvenWeights(entry, r) ==
    [entry EXCEPT !.keyword_score   = r.relevance_score,
                  !.relevance_score =
                      (entry.semantic_score * 5 + r.relevance_score * 5) \div 10]

\* update of an entry whose content is already a key
Boost(entry, r) ==
    [entry EXCEPT !.keyword_score   = r.relevance_score,
                  !.relevance_score =
                      (entry.semantic_score * 6 + r.relevance_score * 4) \div 10]

\* dict assignment merged[key] = value: an existing key keeps its position
DictSet(merged, content, value) ==
    LET k == KeyIndex(merged, content)
    IN  IF k = 0 THEN Append(merged, value)
        ELSE [merged EXCEPT ![k] = value]

RECURSIVE MergeSemantic(_, _, _)
MergeSemantic(merged, sem, i) ==
    IF i > Len(sem) THEN merged
    ELSE MergeSemantic(DictSet(merged, sem[i].content, SemanticEntry(sem[i])),
                       sem, i + 1)

RECURSIVE MergeKeyword(_, _, _)
MergeKeyword(merged, kw, i) ==
    IF i > Len(kw) THEN merged
    ELSE LET k == KeyIndex(merged, kw[i].content)
         IN  MergeKeyword(
                 IF k # 0
                 THEN [merged EXCEPT ![k] = Boost(merged[k], kw[i])]
                 ELSE Append(merged, KeywordEntry(kw[i])),
                 kw, i + 1)

\* the merge of _hybrid_search
HybridMerge(sem, kw, top_k) ==
    Take(SortDesc(MergeKeyword(MergeSemantic(<< >>, sem, 1), kw, 1)), top_k)

\* ------------------------------------------------------------------ state
VARIABLES
    collection,        \* entries of the vector index collection
    pc,                \* position of search_similar_chunks_advanced
    req,               \* arguments of the call in progress
    query,             \* local variable query (rebound by the expansion)
    original_query,    \* local variable original_query
    semantic_results,  \* semantic_results of _hybrid_search
    keyword_results,   \* keyword_results of _hybrid_search
    bundle,            \* dict returned by the call
    calls,             \* calls made on behalf of the request, in order
    raised,            \* exception raised inside the try block, "none" if none
    caller,            \* "direct", or "legacy" for search_similar_chunks
    legacy_result,     \* list returned by search_similar_chunks
    chunker,           \* a run of split_text_into_chunks / estimate_num_chunks
    expansion,         \* a call of _expand_query on its own
    router,            \* a call of LLMService.select_best_model
    db,                \* rows of the Document table, by document id
    tasks              \* create_document and delete_document in progress

vars == << collection, pc, req, query, original_query,
           semantic_results, keyword_results, bundle, calls,
           raised, caller, legacy_result, chunker, expansion, router,
           db, tasks >>

\* the components that are not running: nothing in progress
NoChunker   == [pc |-> "off"]
NoExpansion == [pc |-> "off"]
NoRouter    == [pc |-> "off"]

\* ids of the documents
DocIds == { Docs[i] : i \in 1..Len(Docs) }

\* no row in the Document table
NoRow == [exists |-> FALSE]
NoDb  == [d \in DocIds |-> NoRow]

\* no create_document or delete_document call made yet; deleted, overlapped
\* and failure record what has happened so far
NoTasks == [create       |-> [pc |-> "off"],
            delete       |-> [pc |-> "off"],
            deleted      |-> { },
            overlapped   |-> FALSE,
            failure      |-> FALSE]

\* state outside the search request
libVars == << chunker, expansion, router, db, tasks >>

NoBundle == [pending |-> TRUE]

NoRequest == [query |-> << >>, doc_ids |-> None, search_mode |-> "semantic",
              top_k |-> 1, expand_query |-> FALSE]

Call(fn, q, doc_ids, top_k, where) ==
    [fn |-> fn, query |-> q, doc_ids |-> doc_ids, top_k |-> top_k, where |-> where]

InitRest ==
    /\ pc = "idle"
    /\ req = NoRequest
    /\ query = << >>
    /\ original_query = << >>
    /\ semantic_results = << >>
    /\ keyword_results = << >>
    /\ bundle = NoBundle
    /\ calls = << >>
    /\ raised = "none"
    /\ caller = "direct"
    /\ legacy_result = << >>

InitLib ==
    /\ chunker = NoChunker
    /\ expansion = NoExpansion
    /\ router = NoRouter
    /\ db = NoDb
    /\ tasks = NoTasks

Init ==
    /\ collection \in Collections(TextList, NumChunks)
    /\ InitRest
    /\ InitLib

InitKw ==
    /\ collection \in Collections(KwTextList, 2)
    /\ InitRest
    /\ InitLib

\* the success dict of search_similar_chunks_advanced
SuccessBundle(results) ==
    [results         |-> results,
     original_query  |-> original_query,
     expanded_query  |-> IF req.expand_query THEN Some(query) ELSE None,
     search_mode     |-> req.search_mode,
     total_results   |-> Len(results)]

\* except branch that returns the hits without the error field
ErrorBundle_NoErrorField(e) ==
    [results        |-> << >>,
     original_query |-> query]

\* the dict built by the except branch
ErrorBundle(e) ==
    [results        |-> << >>,
     original_query |-> query,
     error          |-> e]

\* entry of search_similar_chunks_advanced: bind the arguments, original_query = query
Request(q, doc_ids, mode, top_k, expand) ==
    /\ pc = "idle"
    /\ pc' = "started"
    /\ req' = [query |-> q, doc_ids |-> doc_ids, search_mode |-> mode,
               top_k |-> top_k, expand_query |-> expand]
    /\ query' = q
    /\ original_query' = q
    /\ semantic_results' = << >>
    /\ keyword_results' = << >>
    /\ bundle' = NoBundle
    /\ calls' = << >>
    /\ raised' = "none"
    /\ caller' = "direct"
    /\ UNCHANGED << collection, legacy_result, libVars >>

\* expansion without the test of the mode
ShouldExpand_AnyMode == req.expand_query

\* condition of step 1
ShouldExpand == req.expand_query /\ req.search_mode \in {"semantic", "hybrid"}

\* step 1, expansion taken
Expand ==
    /\ pc = "started"
    /\ ShouldExpand
    /\ query' = _expand_query(query)
    /\ calls' = Append(calls, Call("_expand_query", query, None, 0, NoFilter))
    /\ pc' = "dispatch"
    /\ UNCHANGED << collection, req, original_query, semantic_results,
                    keyword_results, bundle >>
    /\ UNCHANGED << raised, caller, legacy_result, libVars >>

\* step 1, expansion skipped
NoExpand ==
    /\ pc = "started"
    /\ ~ShouldExpand
    /\ pc' = "dispatch"
    /\ UNCHANGED << collection, req, query, original_query, semantic_results,
                    keyword_results, bundle, calls >>
    /\ UNCHANGED << raised, caller, legacy_result, libVars >>

\* _semantic_search returning: the results the index can report for the call
SemanticOutcomes(q, doc_ids, top_k) ==
    LET where == SemanticWhere(doc_ids)
        texts == { collection[p].document : p \in Matched(collection, where) }
    IN  UNION { { FormatSemantic(collection, ids, dist) :
                    ids \in QueryOrders(collection, where, top_k, dist) } :
                dist \in [texts -> Distances] }

\* _keyword_search returning
KeywordOutcome(q, doc_ids, top_k) ==
    _keyword_search(collection, CollectionGet(collection, KeywordWhere(doc_ids)),
                    q, top_k)

SemanticCall == Call("_semantic_search", query, req.doc_ids, req.top_k,
                     SemanticWhere(req.doc_ids))
KeywordCall  == Call("_keyword_search", query, req.doc_ids, req.top_k,
                     KeywordWhere(req.doc_ids))

\* mode semantic: _semantic_search, then the success dict
SemanticSearch ==
    /\ pc = "dispatch"
    /\ req.search_mode = "semantic"
    /\ req.top_k >= 1
    /\ \E results \in SemanticOutcomes(query, req.doc_ids, req.top_k) :
          bundle' = SuccessBundle(results)
    /\ calls' = Append(calls, SemanticCall)
    /\ pc' = "done"
    /\ UNCHANGED << collection, req, query, original_query, semantic_results,
                    keyword_results >>
    /\ UNCHANGED << raised, caller, legacy_result, libVars >>

\* mode keyword: _keyword_search, then the success dict
KeywordSearch ==
    /\ pc = "dispatch"
    /\ req.search_mode = "keyword"
    /\ bundle' = SuccessBundle(KeywordOutcome(query, req.doc_ids, req.top_k))
    /\ calls' = Append(calls, KeywordCall)
    /\ pc' = "done"
    /\ UNCHANGED << collection, req, query, original_query, semantic_results,
                    keyword_results >>
    /\ UNCHANGED << raised, caller, legacy_result, libVars >>

\* mode hybrid: the semantic sub-search of _hybrid_search
HybridSemantic ==
    /\ pc = "dispatch"
    /\ req.search_mode = "hybrid"
    /\ req.top_k >= 1
    /\ semantic_results' \in SemanticOutcomes(query, req.doc_ids, req.top_k)
    /\ calls' = Append(calls, SemanticCall)
    /\ pc' = "hybrid_keyword"
    /\ UNCHANGED << collection, req, query, original_query, keyword_results, bundle >>
    /\ UNCHANGED << raised, caller, legacy_result, libVars >>

\* keyword sub-search handed the caller's query instead of the local query
HybridKeyword_OriginalQuery ==
    /\ pc = "hybrid_keyword"
    /\ keyword_results' = KeywordOutcome(original_query, req.doc_ids, req.top_k)
    /\ calls' = Append(calls, Call("_keyword_search", original_query, req.doc_ids,
                                   req.top_k, KeywordWhere(req.doc_ids)))
    /\ pc' = "hybrid_merge"
    /\ UNCHANGED << collection, req, query, original_query, semantic_results, bundle >>
    /\ UNCHANGED << raised, caller, legacy_result, libVars >>

\* mode hybrid: the keyword sub-search of _hybrid_search
HybridKeyword ==
    /\ pc = "hybrid_keyword"
    /\ keyword_results' = KeywordOutcome(query, req.doc_ids, req.top_k)
    /\ calls' = Append(calls, KeywordCall)
    /\ pc' = "hybrid_merge"
    /\ UNCHANGED << collection, req, query, original_query, semantic_results, bundle >>
    /\ UNCHANGED << raised, caller, legacy_result, libVars >>

\* mode hybrid: merge, sort, truncate, then the success dict
HybridMergeStep ==
    /\ pc = "hybrid_merge"
    /\ bundle' = SuccessBundle(HybridMerge(semantic_results, keyword_results, req.top_k))
    /\ pc' = "done"
    /\ UNCHANGED << collection, req, query, original_query, semantic_results,
                    keyword_results, calls >>
    /\ UNCHANGED << raised, caller, legacy_result, libVars >>

\* any other mode: ValueError, caught by the except branch
InvalidMode ==
    /\ pc = "dispatch"
    /\ req.search_mode \notin {"semantic", "hybrid", "keyword"}
    /\ bundle' = ErrorBundle("Invalid search_mode")
    /\ pc' = "done"
    /\ UNCHANGED << collection, req, query, original_query, semantic_results,
                    keyword_results, calls >>
    /\ raised' = "Invalid search_mode"
    /\ UNCHANGED << caller, legacy_result, libVars >>

\* collection.query refuses n_results < 1: caught by the except branch
QueryRejected ==
    /\ pc = "dispatch"
    /\ req.search_mode \in {"semantic", "hybrid"}
    /\ req.top_k < 1
    /\ bundle' = ErrorBundle("n_results")
    /\ calls' = Append(calls, SemanticCall)
    /\ pc' = "done"
    /\ UNCHANGED << collection, req, query, original_query, semantic_results,
                    keyword_results >>
    /\ raised' = "n_results"
    /\ UNCHANGED << caller, legacy_result, libVars >>

\* the index is unavailable during collection.query or collection.get:
\* the exception is caught by the except branch
IndexFailure ==
    /\ \/ pc = "dispatch" /\ req.search_mode \in {"semantic", "hybrid", "keyword"}
       \/ pc = "hybrid_keyword"
    /\ bundle' = ErrorBundle("index unavailable")
    /\ calls' = Append(calls,
                       IF pc = "hybrid_keyword" \/ req.search_mode = "keyword"
                       THEN KeywordCall ELSE SemanticCall)
    /\ pc' = "done"
    /\ UNCHANGED << collection, req, query, original_query, semantic_results,
                    keyword_results >>
    /\ raised' = "index unavailable"
    /\ UNCHANGED << caller, legacy_result, libVars >>

\* search_similar_chunks calling search_similar_chunks_advanced with
\* search_mode="semantic" and expand_query=False
LegacyRequest(q, doc_ids, top_k) ==
    /\ pc = "idle"
    /\ pc' = "started"
    /\ req' = [query |-> q, doc_ids |-> doc_ids, search_mode |-> "semantic",
               top_k |-> top_k, expand_query |-> FALSE]
    /\ query' = q
    /\ original_query' = q
    /\ semantic_results' = << >>
    /\ keyword_results' = << >>
    /\ bundle' = NoBundle
    /\ calls' = << >>
    /\ raised' = "none"
    /\ caller' = "legacy"
    /\ UNCHANGED << collection, legacy_result, libVars >>

\* advanced_results.get("results", [])
BundleResults(b) == IF "results" \in DOMAIN b THEN b.results ELSE << >>

\* search_similar_chunks returning the content strings of the bundle
LegacyReturn ==
    /\ pc = "done"
    /\ caller = "legacy"
    /\ legacy_result' = [i \in 1..Len(BundleResults(bundle)) |->
                            BundleResults(bundle)[i].content]
    /\ pc' = "legacy_done"
    /\ UNCHANGED << collection, req, query, original_query, semantic_results,
                    keyword_results, bundle, calls, raised, caller, libVars >>

Next ==
    \/ \E q \in Queries, doc_ids \in DocIdsOptions, mode \in SearchModes,
          top_k \in TopKs, expand \in BOOLEAN :
          Request(q, doc_ids, mode, top_k, expand)
    \/ \E q \in Queries, doc_ids \in DocIdsOptions, top_k \in TopKs :
          LegacyRequest(q, doc_ids, top_k)
    \/ LegacyReturn
    \/ Expand
    \/ NoExpand
    \/ SemanticSearch
    \/ KeywordSearch
    \/ HybridSemantic
    \/ HybridKeyword
    \/ HybridMergeStep
    \/ InvalidMode
    \/ QueryRejected
    \/ IndexFailure

Spec == Init /\ [][Next]_vars

SpecKw == InitKw /\ [][Next]_vars

\* collection.query or collection.get is entered and never returns: the
\* coroutine stays inside the call, and the code has no timeout that ends it
IndexHang ==
    /\ \/ pc = "dispatch" /\ req.search_mode \in {"semantic", "hybrid", "keyword"}
       \/ pc = "hybrid_keyword"
    /\ calls' = Append(calls,
                       IF pc = "hybrid_keyword" \/ req.search_mode = "keyword"
                       THEN KeywordCall ELSE SemanticCall)
    /\ pc' = "blocked"
    /\ UNCHANGED << collection, req, query, original_query, semantic_results,
                    keyword_results, bundle, raised, caller, legacy_result, libVars >>

NextLive ==
    \/ Next
    \/ IndexHang

\* the steps the coroutine takes on its own, between index calls: the event
\* loop runs a coroutine that can run; whether an index call returns is up to
\* the index
RequestStep ==
    \/ LegacyReturn
    \/ Expand
    \/ NoExpand
    \/ HybridMergeStep
    \/ InvalidMode

SpecLive == Init /\ [][NextLive]_vars /\ WF_vars(RequestStep)

TypeOK ==
    /\ pc \in {"idle", "started", "dispatch", "hybrid_keyword", "hybrid_merge", "done",
              "legacy_done"}
    /\ req.top_k \in TopKs

\* ---------------------------------------------------------------- chunker
\* str.split() separators
IsSpace(c) == c \in {" ", "\n", "\t"}

\* " ".join(text.split()): whitespace runs become one space, the ends are trimmed
RECURSIVE JoinSplit(_, _, _)
JoinSplit(raw, i, acc) ==
    IF i > Len(raw) THEN acc
    ELSE IF IsSpace(raw[i]) THEN JoinSplit(raw, i + 1, acc)
    ELSE JoinSplit(raw, i + 1,
                   IF Len(acc) > 0 /\ i > 1 /\ IsSpace(raw[i - 1])
                   THEN acc \o << " ", raw[i] >>
                   ELSE Append(acc, raw[i]))

Normalize(raw) == JoinSplit(raw, 1, << >>)

\* str.strip()
RECURSIVE StripLeft(_)
StripLeft(t) == IF Len(t) > 0 /\ IsSpace(t[1]) THEN StripLeft(Tail(t)) ELSE t

RECURSIVE StripRight(_)
StripRight(t) ==
    IF Len(t) > 0 /\ IsSpace(t[Len(t)]) THEN StripRight(SubSeq(t, 1, Len(t) - 1)) ELSE t

Strip(t) == StripRight(StripLeft(t))

\* Python slice text[a:b] for 0 <= a, 0 <= b
Slice(text, a, b) == SubSeq(text, a + 1, Min(b, Len(text)))

\* text.find(" ", from), 0-based, -1 when absent
FindSpace(text, from) == Find(text, s_sp, from + 1) - 1

\* the next start set back by the whole window instead of the overlap
LoopBody_NoAdvance(text, start, chunk_size, overlap) ==
    LET end0       == start + chunk_size
        next_space == IF end0 < Len(text) THEN FindSpace(text, end0) ELSE -1
        end        == IF end0 < Len(text) /\ next_space # -1 THEN next_space ELSE end0
    IN  [chunk    |-> Strip(Slice(text, start, end)),
         start    |-> start,
         end      |-> end,
         extended |-> end > end0,
         next     |-> end - chunk_size]

\* one iteration of the while loop: the window, the chunk and the next start
LoopBody(text, start, chunk_size, overlap) ==
    LET end0       == start + chunk_size
        next_space == IF end0 < Len(text) THEN FindSpace(text, end0) ELSE -1
        end        == IF end0 < Len(text) /\ next_space # -1 THEN next_space ELSE end0
    IN  [chunk    |-> Strip(Slice(text, start, end)),
         start    |-> start,
         end      |-> end,
         extended |-> end > end0,
         next     |-> end - overlap]

\* rounding down instead of up
estimate_num_chunks_Floor(text, chunk_size, overlap) ==
    IF Len(text) = 0 THEN 0
    ELSE LET effective_size == chunk_size - overlap
             n == Len(text) \div effective_size
         IN  IF n >= 1 THEN n ELSE 1

\* estimate_num_chunks
estimate_num_chunks(text, chunk_size, overlap) ==
    IF Len(text) = 0 THEN 0
    ELSE LET effective_size == chunk_size - overlap
             n == (Len(text) + effective_size - 1) \div effective_size
         IN  IF n >= 1 THEN n ELSE 1

\* inputs of the chunker
MaxTextLen   == 6
MaxChunkSize == 3
TextAlphabet == { "a", " ", "\n" }
RawTexts     == UNION { [1..n -> TextAlphabet] : n \in 0..MaxTextLen }

\* split_text_into_chunks up to the loop: normalization and the short-text return
SplitStart(raw, chunk_size, overlap) ==
    /\ chunker.pc = "off"
    /\ chunker' =
          LET text == Normalize(raw)
          IN  [pc         |-> IF Len(text) <= chunk_size THEN "returned" ELSE "loop",
               raw        |-> raw,
               text       |-> text,
               chunk_size |-> chunk_size,
               overlap    |-> overlap,
               start      |-> 0,
               chunks     |-> IF Len(text) <= chunk_size THEN << text >> ELSE << >>,
               windows    |-> << >>,
               extended   |-> FALSE,
               estimate   |-> 0]
    /\ UNCHANGED << collection, pc, req, query, original_query, semantic_results,
                    keyword_results, bundle, calls, raised, caller, legacy_result,
                    expansion, router, db, tasks >>

\* one pass through the body of the while loop
SplitStep ==
    /\ chunker.pc = "loop"
    /\ chunker.start < Len(chunker.text)
    /\ LET b == LoopBody(chunker.text, chunker.start, chunker.chunk_size, chunker.overlap)
       IN  chunker' = [chunker EXCEPT
                          !.chunks   = Append(@, b.chunk),
                          !.windows  = Append(@, << b.start, b.end >>),
                          !.extended = @ \/ b.extended,
                          !.start    = b.next]
    /\ UNCHANGED << collection, pc, req, query, original_query, semantic_results,
                    keyword_results, bundle, calls, raised, caller, legacy_result,
                    expansion, router, db, tasks >>

\* the loop condition fails: return chunks
SplitReturn ==
    /\ chunker.pc = "loop"
    /\ chunker.start >= Len(chunker.text)
    /\ chunker' = [chunker EXCEPT !.pc = "returned"]
    /\ UNCHANGED << collection, pc, req, query, original_query, semantic_results,
                    keyword_results, bundle, calls, raised, caller, legacy_result,
                    expansion, router, db, tasks >>

\* estimate_num_chunks on the same arguments
Estimate ==
    /\ chunker.pc = "returned"
    /\ chunker' = [chunker EXCEPT
                      !.pc = "estimated",
                      !.estimate = estimate_num_chunks(chunker.raw, chunker.chunk_size,
                                                       chunker.overlap)]
    /\ UNCHANGED << collection, pc, req, query, original_query, semantic_results,
                    keyword_results, bundle, calls, raised, caller, legacy_result,
                    expansion, router, db, tasks >>

InitChunk ==
    /\ collection = << >>
    /\ InitRest
    /\ InitLib

NextChunk ==
    \/ \E raw \in RawTexts, chunk_size \in 1..MaxChunkSize :
          \E overlap \in 0..(chunk_size - 1) : SplitStart(raw, chunk_size, overlap)
    \/ SplitStep
    \/ SplitReturn
    \/ Estimate

SpecChunk == InitChunk /\ [][NextChunk]_vars

\* the call runs to its end: the loop has no await and nothing preempts it
SpecChunkLive == InitChunk /\ [][NextChunk]_vars /\ WF_vars(SplitStep \/ SplitReturn)

\* ------------------------------------------------- query expansion alone
s_email == <<"e","m","a","i","l">>
s_html  == <<"h","t","m","l">>
s_mlx   == <<"m","l","x">>
s_NLP   == <<"N","L","P">>
s_deep  == <<"d","e","e","p">>

\* words of the queries handed to _expand_query
QueryWords == << s_ML, s_ml, s_ai, s_NLP, s_dl, s_nn, s_data, s_deep,
                s_email, s_html, s_mlx >>

MaxQueryWords == 2

\* the words w[1] .. w[n] joined by single spaces
RECURSIVE JoinWords(_, _)
JoinWords(w, i) ==
    IF i > Len(w) THEN << >>
    ELSE IF i = Len(w) THEN w[i]
    ELSE w[i] \o s_sp \o JoinWords(w, i + 1)

ExpansionQueries ==
    { JoinWords([k \in DOMAIN f |-> QueryWords[f[k]]], 1) :
        f \in UNION { [1..n -> 1..Len(QueryWords)] : n \in 1..MaxQueryWords } }

\* a call of _expand_query
ExpandCall(q) ==
    /\ expansion.pc = "off"
    /\ expansion' = [pc |-> "returned", query |-> q, expanded |-> _expand_query(q)]
    /\ UNCHANGED << collection, pc, req, query, original_query, semantic_results,
                    keyword_results, bundle, calls, raised, caller, legacy_result,
                    chunker, router, db, tasks >>

NextExpand == \E q \in ExpansionQueries : ExpandCall(q)

SpecExpand == InitChunk /\ [][NextExpand]_vars

\* ------------------------------------------------------------ LLM routing
\* cue lists of _classify_query, in the order of the source
ComparisonCues == <<
    <<"c","o","m","p","a","r","e">>,
    <<"d","i","f","f","e","r","e","n","c","e">>,
    <<"v","s">>,
    <<"v","e","r","s","u","s">>,
    <<"c","o","n","t","r","a","s","t">>,
    <<"s","i","m","i","l","a","r">> >>

\* analytical indicators
AnalyticalCues == <<
    <<"a","n","a","l","y","z","e">>,
    <<"a","n","a","l","y","z","e">>,
    <<"e","x","p","l","a","i","n"," ","w","h","y">>,
    <<"r","e","a","s","o","n","i","n","g">>,
    <<"e","v","a","l","u","a","t","e">> >>

\* creative indicators
CreativeCues == <<
    <<"w","r","i","t","e">>,
    <<"c","r","e","a","t","e">>,
    <<"g","e","n","e","r","a","t","e">>,
    <<"i","m","a","g","i","n","e">>,
    <<"s","t","o","r","y">>,
    <<"p","o","e","m">> >>

\* factual indicators
FactualCues == <<
    <<"w","h","a","t">>,
    <<"w","h","o">>,
    <<"w","h","e","n">>,
    <<"w","h","e","r","e">>,
    <<"d","e","f","i","n","e">>,
    <<"s","u","m","m","a","r","i","z","e">>,
    <<"l","i","s","t">> >>

\* keyword lists of _detect_domain
medical_keywords == <<
    <<"p","a","t","i","e","n","t">>,
    <<"t","r","e","a","t","m","e","n","t">>,
    <<"d","i","a","g","n","o","s","i","s">>,
    <<"c","l","i","n","i","c","a","l">>,
    <<"t","h","e","r","a","p","y">>,
    <<"m","e","d","i","c","a","l">>,
    <<"d","i","s","e","a","s","e">>,
    <<"s","y","m","p","t","o","m">> >>

\* legal domain
legal_keywords == <<
    <<"c","o","u","r","t">>,
    <<"l","a","w">>,
    <<"l","e","g","a","l">>,
    <<"s","t","a","t","u","t","e">>,
    <<"r","e","g","u","l","a","t","i","o","n">>,
    <<"c","o","n","t","r","a","c","t">>,
    <<"p","l","a","i","n","t","i","f","f">>,
    <<"d","e","f","e","n","d","a","n","t">> >>

\* technical domain
technical_keywords == <<
    <<"a","l","g","o","r","i","t","h","m">>,
    <<"i","m","p","l","e","m","e","n","t","a","t","i","o","n">>,
    <<"s","y","s","t","e","m">>,
    <<"a","r","c","h","i","t","e","c","t","u","r","e">>,
    <<"p","e","r","f","o","r","m","a","n","c","e">>,
    <<"o","p","t","i","m","i","z","a","t","i","o","n">> >>

\* scientific domain
scientific_keywords == <<
    <<"r","e","s","e","a","r","c","h">>,
    <<"e","x","p","e","r","i","m","e","n","t">>,
    <<"h","y","p","o","t","h","e","s","i","s">>,
    <<"m","e","t","h","o","d","o","l","o","g","y">>,
    <<"r","e","s","u","l","t","s">>,
    <<"c","o","n","c","l","u","s","i","o","n">> >>

\* any(word in s for word in words)
AnyIn(words, t) == \E i \in 1..Len(words) : Contains(t, words[i])

\* the analytical test placed before the comparison test
_classify_query_AnalyticalFirst(q) ==
    LET query_lower == Lower(q)
    IN  IF AnyIn(AnalyticalCues, query_lower) THEN "analytical"
        ELSE IF AnyIn(ComparisonCues, query_lower) THEN "comparison"
        ELSE IF AnyIn(CreativeCues, query_lower) THEN "creative"
        ELSE IF AnyIn(FactualCues, query_lower) THEN "factual"
        ELSE "general"

\* LLMService._classify_query
_classify_query(q) ==
    LET query_lower == Lower(q)
    IN  IF AnyIn(ComparisonCues, query_lower) THEN "comparison"
        ELSE IF AnyIn(AnalyticalCues, query_lower) THEN "analytical"
        ELSE IF AnyIn(CreativeCues, query_lower) THEN "creative"
        ELSE IF AnyIn(FactualCues, query_lower) THEN "factual"
        ELSE "general"

\* sum(1 for kw in keywords if kw in content_lower)
RECURSIVE KeywordHits(_, _, _)
KeywordHits(keywords, content_lower, i) ==
    IF i > Len(keywords) THEN 0
    ELSE (IF Contains(content_lower, keywords[i]) THEN 1 ELSE 0)
         + KeywordHits(keywords, content_lower, i + 1)

\* a threshold of 2 keywords
_detect_domain_Two(content) ==
    LET content_lower == Lower(content)
    IN  IF KeywordHits(medical_keywords, content_lower, 1) >= 2 THEN "medical"
        ELSE IF KeywordHits(legal_keywords, content_lower, 1) >= 2 THEN "legal"
        ELSE IF KeywordHits(technical_keywords, content_lower, 1) >= 2 THEN "technical"
        ELSE IF KeywordHits(scientific_keywords, content_lower, 1) >= 2 THEN "scientific"
        ELSE "general"

\* LLMService._detect_domain
_detect_domain(content) ==
    LET content_lower == Lower(content)
    IN  IF KeywordHits(medical_keywords, content_lower, 1) >= 3 THEN "medical"
        ELSE IF KeywordHits(legal_keywords, content_lower, 1) >= 3 THEN "legal"
        ELSE IF KeywordHits(technical_keywords, content_lower, 1) >= 3 THEN "technical"
        ELSE IF KeywordHits(scientific_keywords, content_lower, 1) >= 3 THEN "scientific"
        ELSE "general"

\* Python truthiness of an Optional[str] given as None / Some(label)
Truthy(opt) == ~opt.none /\ opt.val # ""

\* document_domain in ["medical", "legal", "technical"]
SpecialistDomain(domain) ==
    ~domain.none /\ domain.val \in {"medical", "legal", "technical"}

\* selection that sends creative queries to the default backend
SelectionLogic_CreativeDefault(query_type, document_domain) ==
    IF query_type = "factual"
    THEN (IF SpecialistDomain(document_domain) THEN "llama" ELSE "gemma")
    ELSE IF query_type = "analytical" \/ query_type = "comparison" THEN "gemma"
    ELSE "llama"

\* the selection logic of select_best_model
SelectionLogic(query_type, document_domain) ==
    IF query_type = "factual"
    THEN (IF SpecialistDomain(document_domain) THEN "llama" ELSE "gemma")
    ELSE IF query_type = "creative" THEN "dolphin"
    ELSE IF query_type = "analytical" \/ query_type = "comparison" THEN "gemma"
    ELSE "llama"

\* keys of self.models
Models == { "llama", "dolphin", "gemma" }

q_example ==
    <<"C","o","m","p","a","r","e"," ","t","h","e"," ","m","e","t","h","o","d","o","l","o","g","y"," ","u","s","e","d"," ","i","n"," ","t","h","e","s","e",
     " ","t","w","o"," ","p","a","p","e","r","s">>

\* words of the contents handed to _detect_domain
MedicalWords == <<
    <<"P","a","t","i","e","n","t">>,
    <<"t","r","e","a","t","m","e","n","t">>,
    <<"d","i","a","g","n","o","s","i","s">>,
    <<"c","l","i","n","i","c","a","l">> >>

\* words of the contents handed to _detect_domain
LegalWords == <<
    <<"c","o","u","r","t">>,
    <<"l","a","w","y","e","r">>,
    <<"i","l","l","e","g","a","l">>,
    <<"S","t","a","t","u","t","e">> >>

\* words of the contents handed to _detect_domain
TechnicalWords == <<
    <<"a","l","g","o","r","i","t","h","m">>,
    <<"S","y","s","t","e","m">>,
    <<"p","e","r","f","o","r","m","a","n","c","e">>,
    <<"a","r","c","h","i","t","e","c","t","u","r","e">> >>

\* words of the contents handed to _detect_domain
ScientificWords == <<
    <<"r","e","s","e","a","r","c","h">>,
    <<"e","x","p","e","r","i","m","e","n","t">>,
    <<"H","y","p","o","t","h","e","s","i","s">>,
    <<"r","e","s","u","l","t","s">> >>

\* words of the queries handed to _classify_query
RouteWords == <<
    <<"C","o","m","p","a","r","e">>,
    <<"a","n","a","l","y","z","e">>,
    <<"E","v","a","l","u","a","t","e">>,
    <<"w","r","i","t","e">>,
    <<"s","t","o","r","y">>,
    <<"W","h","a","t">>,
    <<"h","e","l","l","o">>,
    <<"c","a","n","v","a","s">>,
    <<"s","p","e","c","i","a","l","i","s","t">> >>

MaxRouteWords == 2

RouteQueries ==
    { q_example } \cup
    { JoinWords([k \in DOMAIN f |-> RouteWords[f[k]]], 1) :
        f \in UNION { [1..n -> 1..Len(RouteWords)] : n \in 1..MaxRouteWords } }

\* largest number of words of one domain in a content
MaxPerDomain == 3

\* the first n words of a list, each followed by a space
RECURSIVE FirstWords(_, _)
FirstWords(w, n) ==
    IF n = 0 THEN << >> ELSE FirstWords(w, n - 1) \o w[n] \o s_sp

\* content with m medical, l legal, t technical and c scientific words
Content(m, l, t, c) ==
    FirstWords(MedicalWords, m) \o FirstWords(LegalWords, l)
    \o FirstWords(TechnicalWords, t) \o FirstWords(ScientificWords, c)

RouteContents ==
    { Content(m, l, t, c) : m \in 0..MaxPerDomain, l \in 0..MaxPerDomain,
                            t \in 0..MaxPerDomain, c \in 0..MaxPerDomain }

\* arguments of the calls of select_best_model: the queries "Compare",
\* "analyze", "write", "What", "hello" and "What story"
SelectQueries  == { RouteWords[1], RouteWords[2], RouteWords[4], RouteWords[6], RouteWords[7],
                    JoinWords(<< RouteWords[6], RouteWords[5] >>, 1) }
SelectContents == { Content(m, l, t, c) : m \in {0, 3}, l \in {0, 3},
                                          t \in {0, 3}, c \in {0, 3} }
DomainArgs     == { None, Some(""), Some("medical"), Some("legal"),
                    Some("scientific"), Some("finance") }

\* a call of _classify_query
ClassifyCall(q) ==
    /\ router.pc = "off"
    /\ router' = [pc |-> "classified", query |-> q, query_type |-> _classify_query(q)]
    /\ UNCHANGED << collection, pc, req, query, original_query, semantic_results,
                    keyword_results, bundle, calls, raised, caller, legacy_result,
                    chunker, expansion, db, tasks >>

\* a call of _detect_domain
DetectCall(content) ==
    /\ router.pc = "off"
    /\ router' = [pc |-> "detected", content |-> content,
                  domain |-> _detect_domain(content)]
    /\ UNCHANGED << collection, pc, req, query, original_query, semantic_results,
                    keyword_results, bundle, calls, raised, caller, legacy_result,
                    chunker, expansion, db, tasks >>

\* a call of select_best_model
SelectCall(q, document_content, domain_arg) ==
    /\ router.pc = "off"
    /\ router' =
          LET query_type == _classify_query(q)
              document_domain ==
                  IF ~Truthy(domain_arg) /\ Len(document_content) > 0
                  THEN Some(_detect_domain(document_content))
                  ELSE domain_arg
          IN  [pc              |-> "selected",
               query           |-> q,
               content         |-> document_content,
               domain_arg      |-> domain_arg,
               query_type      |-> query_type,
               document_domain |-> document_domain,
               model           |-> SelectionLogic(query_type, document_domain)]
    /\ UNCHANGED << collection, pc, req, query, original_query, semantic_results,
                    keyword_results, bundle, calls, raised, caller, legacy_result,
                    chunker, expansion, db, tasks >>

NextRoute ==
    \/ \E q \in RouteQueries : ClassifyCall(q)
    \/ \E content \in RouteContents : DetectCall(content)
    \/ \E q \in SelectQueries, content \in SelectContents, domain_arg \in DomainArgs :
          SelectCall(q, content, domain_arg)

SpecRoute == InitChunk /\ [][NextRoute]_vars

\* ------------------------------------------------- ingestion and deletion
\* largest number of chunks of a document
MaxDocChunks == 2

\* the entry collection.add stores for chunk idx of document d
IndexedChunk(d, idx) ==
    [document |-> s_data,
     metadata |-> [doc_id |-> d, chunk_index |-> idx, filename |-> d]]

\* the for loop of _generate_embeddings after k calls of collection.add
AddChunks(coll, d, k) == coll \o [i \in 1..k |-> IndexedChunk(d, i - 1)]

\* where={"doc_id": str(document_id)}
DeleteWhere(d) == [op |-> "eq", args |-> << d >>]

\* collection.delete(ids=...): the entries at the positions ids are removed
RECURSIVE RemoveIds(_, _, _)
RemoveIds(coll, ids, p) ==
    IF p > Len(coll) THEN << >>
    ELSE (IF \E i \in 1..Len(ids) : ids[i] = p THEN << >> ELSE << coll[p] >>)
         \o RemoveIds(coll, ids, p + 1)

\* the try block of delete_document: get the ids of the document, delete them
DeleteChunks(coll, d) == RemoveIds(coll, CollectionGet(coll, DeleteWhere(d)), 1)

\* the coroutine has started and has not returned
InProgress(t) == t.pc \notin { "off", "returned" }

\* create_document up to the first commit: the row with status "processing"
CreateCommit(d, n) ==
    /\ ~InProgress(tasks.create)
    /\ ~db[d].exists
    /\ db' = [db EXCEPT ![d] = [exists |-> TRUE, status |-> "processing",
                                is_active |-> TRUE]]
    /\ tasks' = [tasks EXCEPT
                    !.create = [pc |-> "committed", doc |-> d, n |-> n, added |-> 0,
                                status |-> "processing"],
                    !.overlapped = @ \/ InProgress(tasks.delete)]
    /\ UNCHANGED collection
    /\ UNCHANGED << pc, req, query, original_query, semantic_results,
                    keyword_results, bundle, calls, raised, caller, legacy_result,
                    chunker, expansion, router >>

\* _generate_embeddings adds every chunk; status "completed" is committed
CreateEmbed ==
    /\ tasks.create.pc = "committed"
    /\ collection' = AddChunks(collection, tasks.create.doc, tasks.create.n)
    /\ db' = [db EXCEPT ![tasks.create.doc].status = "completed"]
    /\ tasks' = [tasks EXCEPT !.create.pc = "status_committed",
                              !.create.added = tasks.create.n,
                              !.create.status = "completed"]
    /\ UNCHANGED << pc, req, query, original_query, semantic_results,
                    keyword_results, bundle, calls, raised, caller, legacy_result,
                    chunker, expansion, router >>

\* _generate_embeddings raises after k chunks were added (no text extracted,
\* or collection.add failing): the except branch commits status "failed"
CreateFail(k) ==
    /\ tasks.create.pc = "committed"
    /\ k < tasks.create.n
    /\ collection' = AddChunks(collection, tasks.create.doc, k)
    /\ db' = [db EXCEPT ![tasks.create.doc].status = "failed"]
    /\ tasks' = [tasks EXCEPT !.create.pc = "status_committed",
                              !.create.added = k,
                              !.create.status = "failed",
                              !.failure = TRUE]
    /\ UNCHANGED << pc, req, query, original_query, semantic_results,
                    keyword_results, bundle, calls, raised, caller, legacy_result,
                    chunker, expansion, router >>

\* create_document returns the DocumentRead
CreateReturn ==
    /\ tasks.create.pc = "status_committed"
    /\ tasks' = [tasks EXCEPT !.create.pc = "returned"]
    /\ UNCHANGED << collection, db >>
    /\ UNCHANGED << pc, req, query, original_query, semantic_results,
                    keyword_results, bundle, calls, raised, caller, legacy_result,
                    chunker, expansion, router >>

\* delete_document: the select finds no row, return False
DeleteNotFound(d) ==
    /\ ~InProgress(tasks.delete)
    /\ ~db[d].exists
    /\ tasks' = [tasks EXCEPT !.delete = [pc |-> "returned", doc |-> d,
                                          result |-> FALSE]]
    /\ UNCHANGED << collection, db >>
    /\ UNCHANGED << pc, req, query, original_query, semantic_results,
                    keyword_results, bundle, calls, raised, caller, legacy_result,
                    chunker, expansion, router >>

\* delete_document: the select finds the row
DeleteSelect(d) ==
    /\ ~InProgress(tasks.delete)
    /\ db[d].exists
    /\ tasks' = [tasks EXCEPT
                    !.delete = [pc |-> "selected", doc |-> d, result |-> FALSE],
                    !.overlapped = @ \/ InProgress(tasks.create)]
    /\ UNCHANGED << collection, db >>
    /\ UNCHANGED << pc, req, query, original_query, semantic_results,
                    keyword_results, bundle, calls, raised, caller, legacy_result,
                    chunker, expansion, router >>

\* delete_document: the chunks are removed, then the soft delete is committed
DeleteEmbeddings ==
    /\ tasks.delete.pc = "selected"
    /\ collection' = DeleteChunks(collection, tasks.delete.doc)
    /\ db' = [db EXCEPT ![tasks.delete.doc].is_active = FALSE]
    /\ tasks' = [tasks EXCEPT !.delete.pc = "committed"]
    /\ UNCHANGED << pc, req, query, original_query, semantic_results,
                    keyword_results, bundle, calls, raised, caller, legacy_result,
                    chunker, expansion, router >>

\* delete_document: collection.get or collection.delete raises, the except
\* branch logs it, then the soft delete is committed
DeleteIndexFailure ==
    /\ tasks.delete.pc = "selected"
    /\ UNCHANGED collection
    /\ db' = [db EXCEPT ![tasks.delete.doc].is_active = FALSE]
    /\ tasks' = [tasks EXCEPT !.delete.pc = "committed", !.failure = TRUE]
    /\ UNCHANGED << pc, req, query, original_query, semantic_results,
                    keyword_results, bundle, calls, raised, caller, legacy_result,
                    chunker, expansion, router >>

\* delete_document returns True
DeleteReturn ==
    /\ tasks.delete.pc = "committed"
    /\ tasks' = [tasks EXCEPT !.delete.pc = "returned",
                              !.delete.result = TRUE,
                              !.deleted = @ \cup { tasks.delete.doc }]
    /\ UNCHANGED << collection, db >>
    /\ UNCHANGED << pc, req, query, original_query, semantic_results,
                    keyword_results, bundle, calls, raised, caller, legacy_result,
                    chunker, expansion, router >>

NextDocs ==
    \/ \E d \in DocIds, n \in 1..MaxDocChunks : CreateCommit(d, n)
    \/ CreateEmbed
    \/ \E k \in 0..(MaxDocChunks - 1) : CreateFail(k)
    \/ CreateReturn
    \/ \E d \in DocIds : DeleteNotFound(d)
    \/ \E d \in DocIds : DeleteSelect(d)
    \/ DeleteEmbeddings
    \/ DeleteIndexFailure
    \/ DeleteReturn

SpecDocs == InitChunk /\ [][NextDocs]_vars

\* ----------------------------------------------------------------- claims
Returned  == pc = "done"
Succeeded == pc = "done" /\ "error" \notin DOMAIN bundle
ValidMode == req.search_mode \in {"semantic", "keyword", "hybrid"}

ContentIn(hits, content) == \E i \in 1..Len(hits) : hits[i].content = content

DistinctContent(hits) ==
    \A i \in 1..Len(hits) : \A j \in 1..Len(hits) :
        hits[i].content = hits[j].content => i = j

\* C1: for a request with top_k >= 1 in mode semantic, keyword or hybrid, the
\* returned hit list has at most top_k hits.
C1_LengthAtMostTopK ==
    (Returned /\ req.top_k >= 1 /\ ValidMode) => Len(bundle.results) <= req.top_k

\* a hybrid request whose merged list was longer than top_k and was cut to top_k
C1_Witness ==
    /\ Succeeded
    /\ req.search_mode = "hybrid"
    /\ Len(bundle.results) = req.top_k
    /\ \E i \in 1..Len(keyword_results) :
          /\ ~ContentIn(semantic_results, keyword_results[i].content)
          /\ ~ContentIn(bundle.results, keyword_results[i].content)

\* C2: in every mode the returned hit list is sorted by relevance_score in
\* non-increasing order.
C2_SortedDescending ==
    Returned =>
        \A i \in 1..Len(bundle.results) : \A j \in i..Len(bundle.results) :
            bundle.results[i].relevance_score >= bundle.results[j].relevance_score

\* a hybrid request where a keyword-only hit is ranked above a semantic hit
C2_Witness ==
    /\ Succeeded
    /\ req.search_mode = "hybrid"
    /\ Len(bundle.results) >= 2
    /\ bundle.results[1].semantic_score = 0
    /\ bundle.results[2].keyword_score = 0
    /\ bundle.results[1].relevance_score > bundle.results[2].relevance_score

\* C3 as stated: in every mode the returned hit list contains no two hits with
\* identical content, also when two distinct chunks hold the same text.
C3_NoDuplicateContentAnyMode ==
    Succeeded => DistinctContent(bundle.results)

\* C3 amended: in hybrid mode no two returned hits have identical content; in
\* semantic and keyword mode every chunk is returned at most once, so two hits
\* have identical content only when they are two distinct chunks with that text.
C3_DuplicatesOnlyFromDistinctChunks ==
    Succeeded =>
        /\ req.search_mode = "hybrid" => DistinctContent(bundle.results)
        /\ req.search_mode \in {"semantic", "keyword"} =>
              \A i \in 1..Len(bundle.results) : \A j \in 1..Len(bundle.results) :
                  bundle.results[i].metadata = bundle.results[j].metadata => i = j

\* a semantic request that returns two distinct chunks with the same text
C3_Witness ==
    /\ Succeeded
    /\ req.search_mode = "semantic"
    /\ Len(bundle.results) = 2
    /\ bundle.results[1].content = bundle.results[2].content
    /\ bundle.results[1].metadata # bundle.results[2].metadata

\* C4: in hybrid mode the returned hit list never contains two hits with the
\* same content, whatever the two sub-results are.
C4_HybridNoDuplicateContent ==
    (Succeeded /\ req.search_mode = "hybrid") => DistinctContent(bundle.results)

\* a hybrid request whose semantic sub-result repeats a content that the
\* keyword sub-result lists too, with a second hit returned beside it
C4_Witness ==
    /\ Succeeded
    /\ req.search_mode = "hybrid"
    /\ Len(semantic_results) = 2
    /\ semantic_results[1].content = semantic_results[2].content
    /\ ContentIn(keyword_results, semantic_results[1].content)
    /\ ContentIn(bundle.results, semantic_results[1].content)
    /\ Len(bundle.results) = 2

\* C5: in hybrid mode a returned hit whose content is in both sub-results has
\* relevance_score = 0.6 * semantic_score + 0.4 * keyword_score, the scores
\* recorded on the hit being those of the two sub-results.
C5_FusedScore ==
    (Succeeded /\ req.search_mode = "hybrid") =>
        \A i \in 1..Len(bundle.results) :
            LET h == bundle.results[i]
            IN  (ContentIn(semantic_results, h.content)
                 /\ ContentIn(keyword_results, h.content)) =>
                    /\ 10 * h.relevance_score = 6 * h.semantic_score + 4 * h.keyword_score
                    /\ \E s \in 1..Len(semantic_results) :
                          /\ semantic_results[s].content = h.content
                          /\ semantic_results[s].relevance_score = h.semantic_score
                    /\ \E k \in 1..Len(keyword_results) :
                          /\ keyword_results[k].content = h.content
                          /\ keyword_results[k].relevance_score = h.keyword_score

\* the example of the specification: 0.8 and 0.5 fuse to 0.68
C5_Witness ==
    /\ Succeeded
    /\ req.search_mode = "hybrid"
    /\ \E i \in 1..Len(bundle.results) :
          /\ ContentIn(semantic_results, bundle.results[i].content)
          /\ ContentIn(keyword_results, bundle.results[i].content)
          /\ bundle.results[i].semantic_score = 800
          /\ bundle.results[i].keyword_score = 500
          /\ bundle.results[i].relevance_score = 680

\* C6: in hybrid mode a returned hit whose content is in the keyword sub-result
\* and in no semantic hit has relevance_score = 0.7 * keyword_score.
C6_KeywordOnlyPenalty ==
    (Succeeded /\ req.search_mode = "hybrid") =>
        \A i \in 1..Len(bundle.results) :
            LET h == bundle.results[i]
            IN  (ContentIn(keyword_results, h.content)
                 /\ ~ContentIn(semantic_results, h.content)) =>
                    10 * h.relevance_score = 7 * h.keyword_score

\* positions at which sub occurs in s
Occurrences(s, sub) == { i \in 1..(Len(s) + 1) : MatchAt(s, sub, i) }

KeywordHitsOK(hits, q) ==
    /\ \A i \in 1..Len(hits) :
          LET tf == Cardinality(Occurrences(Lower(hits[i].content), Lower(q)))
          IN  /\ tf >= 1
              /\ hits[i].term_frequency = tf
              /\ 10 * hits[i].relevance_score = Min(tf * ScoreScale, 10 * ScoreScale)
              /\ tf = 5 => 2 * hits[i].relevance_score = ScoreScale
              /\ tf >= 10 => hits[i].relevance_score = ScoreScale
    /\ \A i \in 1..Len(hits) : \A j \in 1..Len(hits) :
          hits[i].term_frequency <= hits[j].term_frequency =>
              hits[i].relevance_score <= hits[j].relevance_score

\* C7: keyword search returns only chunks whose lower-cased content contains
\* the lower-cased query, each with relevance_score = min(term_frequency / 10, 1.0):
\* non-decreasing in the frequency, 0.5 at 5 occurrences, 1.0 from 10 on.
C7_KeywordScore ==
    /\ (Succeeded /\ req.search_mode = "keyword") => KeywordHitsOK(bundle.results, req.query)
    /\ pc = "hybrid_merge" => KeywordHitsOK(keyword_results, query)

\* a keyword request returning a chunk with 5 and a chunk with more than 10
\* occurrences, whose text and query differ in case
C7_Witness ==
    /\ Succeeded
    /\ req.search_mode = "keyword"
    /\ Len(bundle.results) = 2
    /\ bundle.results[1].term_frequency > 10
    /\ bundle.results[1].relevance_score = ScoreScale
    /\ bundle.results[2].term_frequency = 5
    /\ ~Contains(bundle.results[1].content, req.query)

\* C8: the relevance_score of a semantic hit is 1 - d/2 clamped to [0,1], so it
\* lies in [0,1] for every distance d the index reports.
C8_SemanticScoreClamped ==
    (Succeeded /\ req.search_mode = "semantic") =>
        \A i \in 1..Len(bundle.results) :
            LET h   == bundle.results[i]
                raw == ScoreScale - (h.distance * ScoreScale) \div (2 * DistScale)
            IN  /\ h.relevance_score =
                      (IF raw < 0 THEN 0 ELSE IF raw > ScoreScale THEN ScoreScale ELSE raw)
                /\ h.relevance_score >= 0
                /\ h.relevance_score <= ScoreScale

\* the filter the specification prescribes for doc_ids
FilterFor(where, doc_ids) ==
    /\ (doc_ids.none \/ Len(doc_ids.val) = 0) => where.op = "none"
    /\ (~doc_ids.none /\ Len(doc_ids.val) = 1) =>
          where.op = "eq" /\ where.args = << doc_ids.val[1] >>
    /\ (~doc_ids.none /\ Len(doc_ids.val) > 1) =>
          where.op = "or" /\ where.args = doc_ids.val

IsAdapterCall(c) == c.fn \in {"_semantic_search", "_keyword_search"}

\* C9: both adapters derive the same filter from doc_ids (none, equality, or a
\* logical OR of equalities), and with a non-empty doc_ids every returned hit
\* belongs to a document of doc_ids.
C9_SameFilter ==
    /\ \A i \in 1..Len(calls) :
          IsAdapterCall(calls[i]) =>
              /\ calls[i].doc_ids = req.doc_ids
              /\ FilterFor(calls[i].where, req.doc_ids)
    /\ \A i \in 1..Len(calls) : \A j \in 1..Len(calls) :
          (IsAdapterCall(calls[i]) /\ IsAdapterCall(calls[j])) =>
              calls[i].where = calls[j].where
    /\ (Succeeded /\ ~req.doc_ids.none /\ Len(req.doc_ids.val) > 0) =>
          \A i \in 1..Len(bundle.results) :
              \E k \in 1..Len(req.doc_ids.val) :
                  bundle.results[i].metadata.doc_id = req.doc_ids.val[k]

\* a hybrid request over two document ids: both adapters were called, a chunk
\* of another document holds a text that is returned
C9_Witness ==
    /\ Succeeded
    /\ req.search_mode = "hybrid"
    /\ ~req.doc_ids.none
    /\ Len(req.doc_ids.val) = 2
    /\ Len(calls) >= 2
    /\ calls[Len(calls)].fn = "_keyword_search"
    /\ calls[Len(calls) - 1].fn = "_semantic_search"
    /\ Len(keyword_results) >= 1
    /\ Len(bundle.results) >= 1
    /\ \E p \in 1..Len(collection) :
          /\ \A k \in 1..Len(req.doc_ids.val) :
                collection[p].metadata.doc_id # req.doc_ids.val[k]
          /\ ContentIn(keyword_results, collection[p].document)

ExpandCalls == { i \in 1..Len(calls) : calls[i].fn = "_expand_query" }

\* C10: the query is expanded exactly when expand_query is true and the mode is
\* semantic or hybrid, and at most once; in keyword mode the keyword adapter
\* receives the query of the request unchanged.
C10_ExpandOnlySemanticHybrid ==
    /\ Cardinality(ExpandCalls) <= 1
    /\ Returned =>
          (Cardinality(ExpandCalls) = 1
             <=> (req.expand_query /\ req.search_mode \in {"semantic", "hybrid"}))
    /\ req.search_mode = "keyword" =>
          \A i \in 1..Len(calls) :
              calls[i].fn = "_keyword_search" => calls[i].query = req.query

\* a keyword request with expand_query set, for a query that expansion rewrites
C10_Witness ==
    /\ Succeeded
    /\ req.search_mode = "keyword"
    /\ req.expand_query
    /\ _expand_query(req.query) # req.query
    /\ Len(calls) = 1
    /\ calls[1].fn = "_keyword_search"
    /\ calls[1].query = req.query
    /\ Len(bundle.results) >= 1

\* C11: when the index call or an adapter fails during
\* search_similar_chunks_advanced, the call returns a bundle with an empty hit
\* list and an error field, nothing propagates, and search_similar_chunks then
\* returns an empty list.
C11_FailureGivesErrorBundle ==
    raised # "none" =>
        /\ pc \in {"done", "legacy_done"}
        /\ "results" \in DOMAIN bundle
        /\ bundle.results = << >>
        /\ "error" \in DOMAIN bundle
        /\ pc = "legacy_done" => legacy_result = << >>

\* a legacy call whose index query failed over a non-empty scope, and a hybrid
\* call failing in its keyword sub-search after the semantic one had hits
C11_Witness ==
    /\ raised = "index unavailable"
    /\ \/ /\ pc = "legacy_done"
          /\ caller = "legacy"
          /\ req.top_k >= 1
          /\ Matched(collection, SemanticWhere(req.doc_ids)) # {}
          /\ legacy_result = << >>
       \/ /\ pc = "done"
          /\ req.search_mode = "hybrid"
          /\ Len(semantic_results) >= 1
          /\ bundle.results = << >>

InvalidRequest ==
    \/ req.top_k < 1
    \/ req.search_mode \notin {"semantic", "keyword", "hybrid"}

\* C12: an invalid request (top_k < 1 or an unknown mode) is rejected by the
\* orchestrator before any call to the vector index, for every caller.
C12_InvalidRejectedBeforeIndex ==
    (pc # "idle" /\ InvalidRequest) =>
        /\ \A i \in 1..Len(calls) : ~IsAdapterCall(calls[i])
        /\ Returned => "error" \in DOMAIN bundle

SplitDone == chunker.pc \in {"returned", "estimated"}

\* C13: every chunk split_text_into_chunks returns, except possibly the last,
\* has length <= chunk_size.
C13_ChunkLengthBounded ==
    SplitDone =>
        \A i \in 1..(Len(chunker.chunks) - 1) :
            Len(chunker.chunks[i]) <= chunker.chunk_size

\* the boundary between positions b and b+1 of t lies inside a word
InsideWord(t, b) == b > 0 /\ b < Len(t) /\ t[b] # " " /\ t[b + 1] # " "

\* C14: no start or end of a chunk falls inside a run of non-space characters of
\* the normalized text.
C14_NoWordSplit ==
    SplitDone =>
        \A i \in 1..Len(chunker.windows) :
            /\ ~InsideWord(chunker.text, chunker.windows[i][1])
            /\ ~InsideWord(chunker.text, chunker.windows[i][2])

\* C15: for a non-empty text estimate_num_chunks is ceil(len / (chunk_size -
\* overlap)), hence at least 1; it is 0 only for the empty text.
C15_EstimateIsCeiling ==
    chunker.pc = "estimated" =>
        LET eff == chunker.chunk_size - chunker.overlap
            n   == chunker.estimate
            len == Len(chunker.raw)
        IN  /\ len = 0 <=> n = 0
            /\ len > 0 => /\ n >= 1
                          /\ n * eff >= len
                          /\ (n - 1) * eff < len

\* a text whose length is not a multiple of chunk_size - overlap
C15_Witness ==
    /\ chunker.pc = "estimated"
    /\ Len(chunker.raw) = 5
    /\ chunker.chunk_size = 3
    /\ chunker.overlap = 1
    /\ chunker.estimate = 3

\* C16: for a non-empty text split without word-boundary extension, the estimate
\* differs from the number of chunks returned by at most 1.
C16_EstimateWithinOne ==
    (chunker.pc = "estimated" /\ Len(chunker.raw) > 0 /\ ~chunker.extended) =>
        /\ chunker.estimate - Len(chunker.chunks) <= 1
        /\ Len(chunker.chunks) - chunker.estimate <= 1

\* whitespace-separated tokens of t
Tokens(t) ==
    UNION { { SubSeq(t, i, k) :
                k \in { j \in i..Len(t) :
                          /\ \A x \in i..j : t[x] # " "
                          /\ (i = 1 \/ t[i - 1] = " ")
                          /\ (j = Len(t) \/ t[j + 1] = " ") } } :
            i \in 1..Len(t) }

\* C17: every whitespace-separated token of the lower-cased query is still a
\* whitespace-separated token of the expanded query.
C17_ExpansionKeepsTokens ==
    expansion.pc = "returned" =>
        Tokens(Lower(expansion.query)) \subseteq Tokens(expansion.expanded)

\* sub occurs in t
Occurs(t, sub) == Occurrences(t, sub) # {}

\* the members of a list
Members(list) == { list[i] : i \in DOMAIN list }

\* some cue of the list occurs in the lower-cased query
HasCue(q, cues) == \E c \in Members(cues) : Occurs(Lower(q), c)

\* number of distinct keywords of the list occurring in the lower-cased content
DistinctHits(content, keywords) ==
    Cardinality({ k \in Members(keywords) : Occurs(Lower(content), k) })

\* C18: the classifier returns the label of the first lexical set, in the order
\* comparison, analytical, creative, factual, with a cue occurring in the
\* lower-cased query, and general when no set has one; the query "Compare the
\* methodology used in these two papers" is classified comparison.
C18_ClassifyFirstMatchingSet ==
    router.pc \in { "classified", "selected" } =>
        LET q   == router.query
            r   == router.query_type
            cmp == HasCue(q, ComparisonCues)
            ana == HasCue(q, AnalyticalCues)
            cre == HasCue(q, CreativeCues)
            fac == HasCue(q, FactualCues)
        IN  /\ (r = "comparison") <=> cmp
            /\ (r = "analytical") <=> (~cmp /\ ana)
            /\ (r = "creative")   <=> (~cmp /\ ~ana /\ cre)
            /\ (r = "factual")    <=> (~cmp /\ ~ana /\ ~cre /\ fac)
            /\ (r = "general")    <=> (~cmp /\ ~ana /\ ~cre /\ ~fac)
            /\ (q = q_example => r = "comparison")

\* a query with a comparison cue and an analytical cue was classified comparison
C18_Witness ==
    /\ router.pc = "classified"
    /\ HasCue(router.query, ComparisonCues)
    /\ HasCue(router.query, AnalyticalCues)
    /\ router.query_type = "comparison"

\* C19: the detector returns the first domain, in the order medical, legal,
\* technical, scientific, with at least 3 distinct keywords of its list occurring
\* in the lower-cased content, and general when no domain reaches 3.
C19_DetectFirstDomainWithThree ==
    router.pc = "detected" =>
        LET c   == router.content
            d   == router.domain
            med == DistinctHits(c, medical_keywords) >= 3
            leg == DistinctHits(c, legal_keywords) >= 3
            tec == DistinctHits(c, technical_keywords) >= 3
            sci == DistinctHits(c, scientific_keywords) >= 3
        IN  /\ (d = "medical")    <=> med
            /\ (d = "legal")      <=> (~med /\ leg)
            /\ (d = "technical")  <=> (~med /\ ~leg /\ tec)
            /\ (d = "scientific") <=> (~med /\ ~leg /\ ~tec /\ sci)
            /\ (d = "general")    <=> (~med /\ ~leg /\ ~tec /\ ~sci)

\* content with 3 medical and 3 legal keywords was detected as medical
C19_Witness ==
    /\ router.pc = "detected"
    /\ DistinctHits(router.content, medical_keywords) >= 3
    /\ DistinctHits(router.content, legal_keywords) >= 3
    /\ router.domain = "medical"

\* content with exactly 2 medical keywords and fewer than 3 of every other
\* domain was detected as general
C19_WitnessTwo ==
    /\ router.pc = "detected"
    /\ DistinctHits(router.content, medical_keywords) = 2
    /\ DistinctHits(router.content, legal_keywords) = 2
    /\ router.domain = "general"

\* C20: selection follows the decision table on (intent, domain): factual with
\* domain medical, legal or technical gives llama, factual otherwise gives gemma,
\* creative gives dolphin, analytical or comparison gives gemma, every other
\* intent gives llama; the result is always one of the registered backends.
C20_DecisionTable ==
    router.pc = "selected" =>
        LET t == router.query_type
            d == router.document_domain
            specialist ==
                d \in { Some("medical"), Some("legal"), Some("technical") }
        IN  /\ router.model \in Models
            /\ (t = "factual" /\ specialist)  => router.model = "llama"
            /\ (t = "factual" /\ ~specialist) => router.model = "gemma"
            /\ t = "creative"                 => router.model = "dolphin"
            /\ t \in { "analytical", "comparison" } => router.model = "gemma"
            /\ t \notin { "factual", "creative", "analytical", "comparison" }
                  => router.model = "llama"

\* a creative query was routed to dolphin
C20_Witness ==
    /\ router.pc = "selected"
    /\ router.query_type = "creative"
    /\ router.model = "dolphin"

\* a factual query over content detected as medical was routed to llama
C20_WitnessDetected ==
    /\ router.pc = "selected"
    /\ router.domain_arg = None
    /\ router.query_type = "factual"
    /\ router.document_domain = Some("medical")
    /\ router.model = "llama"

\* an index call of the request is in flight
InFlight(fn) == pc = "blocked" /\ calls[Len(calls)].fn = fn

Started(fn) == \E i \in 1..Len(calls) : calls[i].fn = fn

\* C21: a request whose index call never returns still returns, with the empty
\* hit list and the error field of an adapter failure.
C21_TimeoutReturns ==
    (pc = "blocked") ~>
        (/\ pc \in {"done", "legacy_done"}
         /\ "error" \in DOMAIN bundle
         /\ bundle.results = << >>)

\* C25: in hybrid search the two sub-searches run concurrently: while the
\* semantic sub-search is in flight the keyword sub-search has been started
\* too, and the merge starts only after both sub-searches have completed.
C25_SubSearchesConcurrent ==
    /\ (req.search_mode = "hybrid" /\ InFlight("_semantic_search"))
          => Started("_keyword_search")
    /\ (req.search_mode = "hybrid" /\ pc = "hybrid_merge")
          => (Started("_semantic_search") /\ Started("_keyword_search"))

\* C26: a hit returned by both sub-searches of a hybrid request, with both
\* scores in [0, 1], has a relevance_score not below its semantic score.
C26_BothHitNotBelowSemantic ==
    (Succeeded /\ req.search_mode = "hybrid") =>
        \A i \in 1..Len(bundle.results) :
            LET h == bundle.results[i]
            IN  (/\ ContentIn(semantic_results, h.content)
                 /\ ContentIn(keyword_results, h.content)
                 /\ h.semantic_score \in 0..ScoreScale
                 /\ h.keyword_score \in 0..ScoreScale)
                    => h.relevance_score >= h.semantic_score

\* the query the sub-searches are expected to receive
SubSearchQuery == IF req.expand_query THEN _expand_query(req.query) ELSE req.query

\* C27: in hybrid mode the semantic and the keyword sub-search are invoked with
\* the same query (the expanded, lower-cased one when expand_query is true),
\* the same doc_ids and the same top_k.
C27_HybridSameArguments ==
    (req.search_mode = "hybrid" /\ pc \in {"hybrid_merge", "done", "blocked"}) =>
        /\ \A i \in 1..Len(calls) :
              calls[i].fn \in {"_semantic_search", "_keyword_search"} =>
                 /\ calls[i].query = SubSearchQuery
                 /\ calls[i].doc_ids = req.doc_ids
                 /\ calls[i].top_k = req.top_k
        /\ pc = "hybrid_merge" =>
              keyword_results =
                  _keyword_search(collection,
                                  CollectionGet(collection, KeywordWhere(req.doc_ids)),
                                  SubSearchQuery, req.top_k)

\* a hybrid request whose expansion changed the query: both sub-searches ran
\* with the expanded query, which the keyword sub-search would have matched
\* differently with the caller's query
C27_Witness ==
    /\ Succeeded
    /\ req.search_mode = "hybrid"
    /\ req.expand_query
    /\ SubSearchQuery # req.query
    /\ Started("_semantic_search")
    /\ \E i \in 1..Len(calls) :
          /\ calls[i].fn = "_keyword_search"
          /\ calls[i].query = SubSearchQuery
    /\ keyword_results # KeywordOutcome(req.query, req.doc_ids, req.top_k)

\* C28: in every returned bundle, success or error, original_query is the
\* query string of the request.
C28_OriginalQueryIsRequestQuery ==
    Returned => bundle.original_query = req.query

\* C24: split_text_into_chunks terminates for 0 <= overlap < chunk_size: every
\* iteration of the loop strictly increases the window start, also after an
\* extension to the next space, and the loop ends once start >= length of the
\* normalized text.
C24_SplitTerminates ==
    /\ [][(chunker.pc = "loop" /\ chunker'.pc = "loop")
             => chunker'.start > chunker.start]_vars
    /\ (chunker.pc = "loop") ~>
          (chunker.pc = "returned" /\ chunker.start >= Len(chunker.text))

\* a run with an extended window and several iterations has returned
C24_Witness ==
    /\ chunker.pc = "returned"
    /\ chunker.extended
    /\ Len(chunker.windows) >= 3
    /\ chunker.start >= Len(chunker.text)

\* text[start:end] ends at the end of the text
ClippedEnd(w) == Min(w[2], Len(chunker.text))

\* C30: every chunk emitted after the first covers a character position of the
\* normalized text beyond the end of the preceding chunk's window.
C30_ChunkReachesBeyondPrevious ==
    SplitDone =>
        \A i \in 2..Len(chunker.windows) :
            ClippedEnd(chunker.windows[i]) > ClippedEnd(chunker.windows[i - 1])

\* chunks of document d held by the index
ChunksOf(d) == { p \in 1..Len(collection) : collection[p].metadata.doc_id = d }

\* C22: in a sequential execution, once delete_document(d) has returned True the
\* index holds no chunk whose doc_id is d, also when the index call failed.
C22_DeletedHasNoChunks ==
    ~tasks.overlapped => \A d \in tasks.deleted : ChunksOf(d) = { }

\* C23: with the index never failing, no interleaving of create_document and
\* delete_document on a document ends with the document soft-deleted while the
\* index still holds chunks of it.
C23_NoSoftDeletedWithChunks ==
    (/\ tasks.create.pc = "returned"
     /\ tasks.delete.pc = "returned"
     /\ ~tasks.failure) =>
        \A d \in DocIds :
            (db[d].exists /\ ~db[d].is_active) => ChunksOf(d) = { }

\* C29: when create_document returns, the status is completed or failed;
\* completed implies every chunk 0..n-1 was added to the index, and failed
\* implies the index holds no chunk of the document.
C29_IngestionAllOrNothing ==
    tasks.create.pc = "returned" =>
        LET c == tasks.create
        IN  /\ c.status \in { "completed", "failed" }
            /\ db[c.doc].status = c.status
            /\ c.status = "completed" => c.added = c.n
            /\ c.status = "failed" => ChunksOf(c.doc) = { }

====
